---- MODULE Spec2Model ----
(***************************************************************************)
(* State-machine model of the TCP port scanner of the AIO CLI application  *)
(* (aio_cli/network.py, command port_scan) together with its resolver      *)
(* helper _resolve_host.                                                    *)
(*                                                                         *)
(* One run of the model is one invocation of port_scan.  The command-line  *)
(* arguments (start_port, end_port, timeout) and the environment (the      *)
(* outcome of the DNS lookup, the outcome of the TCP connect on each port) *)
(* are chosen in Init and stay fixed; the program counter pc walks through *)
(* the statements of the function.  A keyboard interrupt may arrive at any *)
(* statement.                                                              *)
(***************************************************************************)
EXTENDS Integers, Sequences, FiniteSets, TLC

(***************************************************************************)
(* Bounds of the model.                                                    *)
(***************************************************************************)
\* Longest port range that is enumerated (end_port - start_port + 1).
MaxSpan == 3

\* How far end_port may lie below start_port (an inverted range).
MaxInversion == 2

\* Values of --start-port that are enumerated: below, at and above the low
\* end of the port space, and next to its high end.
StartPorts == {-1, 0, 1, 65534, 65535}

\* Values of --timeout: a negative, the zero and a positive duration.
Timeouts == {-1, 0, 1}

(***************************************************************************)
(* The environment.                                                        *)
(***************************************************************************)
\* Largest port number socket.connect_ex accepts; (ip, port) with a port
\* outside 0..MaxPortNumber raises OverflowError before any I/O.
MaxPortNumber == 65535

\* What socket.gethostbyname can do: return an address, raise
\* socket.gaierror (unknown host), or raise another exception (UnicodeError
\* for a host name with an empty or over-long label).
ResolveOutcomes == {"ok", "gaierror", "UnicodeError"}

\* What sock.connect_ex can do on an acceptable port: return 0, return the
\* errno of a refusal, return the errno of an expired timeout, or raise
\* socket.error.
ConnectOutcomes == {"open", "refused", "timeout", "error"}

\* The ports of the requested range that connect_ex accepts.
AcceptedPorts(lo, hi) == {p \in lo..hi : p >= 0 /\ p <= MaxPortNumber}

\* The number of probes the loop of port_scan runs at a time: one socket
\* per iteration, closed before the next iteration starts.
Concurrency == 1

VARIABLES
    start_port,     \* argument --start-port
    end_port,       \* argument --end-port
    timeout,        \* argument --timeout
    dns,            \* environment: outcome of the lookup of host
    net,            \* environment: outcome of connect_ex per accepted port
    pc,             \* statement of port_scan that runs next
    target_ip,      \* "unset" or "ip": the local variable target_ip
    port,           \* loop variable of the for statement
    open_ports,     \* the local list open_ports
    sockets,        \* set of ports whose socket is currently open
    output,         \* lines written by typer.echo / typer.secho, in order
    exit_code,      \* <<>> while running, <<c>> once the command ended with c
    exc,            \* "none" or the exception propagating out of port_scan
    interrupted,    \* TRUE once a keyboard interrupt has been delivered
    resolve_calls,  \* number of calls of _resolve_host
    probe_log,      \* ports on which connect_ex started a connect, in order
    sockets_created,\* number of calls of socket.socket
    probe_ips,      \* the address each connect of probe_log was made to
    result          \* the local variable result ("unbound" until assigned)

vars == <<start_port, end_port, timeout, dns, net, pc, target_ip, port,
          open_ports, sockets, output, exit_code, exc, interrupted,
          resolve_calls, probe_log, sockets_created, probe_ips, result>>

\* The arguments and the environment: no statement changes them.
args == <<start_port, end_port, timeout, dns, net>>

(***************************************************************************)
(* Rendering of the result line.                                           *)
(***************************************************************************)
\* str(p) of a non-negative integer: its decimal digits, most significant
\* first.
RECURSIVE str(_)
str(n) == IF n < 10 THEN <<n>> ELSE Append(str(n \div 10), n % 10)

\* ", ".join(str(p) for p in ports): the sequence of the rendered numbers
\* (the separators carry no information and are left implicit).
join(ports) == [i \in 1..Len(ports) |-> str(ports[i])]

\* A line of output: what kind of message it is and, for the list of open
\* ports, its rendered items.
Line(kind, items) == [kind |-> kind, items |-> items]

(***************************************************************************)
(* Initial state: port_scan has been called, nothing has run yet.          *)
(***************************************************************************)
Init ==
    /\ start_port \in StartPorts
    /\ end_port \in (start_port - MaxInversion)..(start_port + MaxSpan - 1)
    /\ timeout \in Timeouts
    /\ dns \in ResolveOutcomes
    /\ net \in [AcceptedPorts(start_port, end_port) -> ConnectOutcomes]
    /\ \A p \in DOMAIN net : p = 0 => net[p] # "open"
    /\ pc = "echo"
    /\ target_ip = "unset"
    /\ port = start_port
    /\ open_ports = <<>>
    /\ sockets = {}
    /\ output = <<>>
    /\ exit_code = <<>>
    /\ exc = "none"
    /\ interrupted = FALSE
    /\ resolve_calls = 0
    /\ probe_log = <<>>
    /\ sockets_created = 0
    /\ probe_ips = <<>>
    /\ result = "unbound"

(***************************************************************************)
(* The statements of port_scan.                                            *)
(***************************************************************************)
\* (a variant of Raise without the with statement: the socket of the
\* current port stays open when an exception leaves the loop body)
Raise_Leak(e) ==
    /\ pc' = "raised"
    /\ exc' = e
    /\ UNCHANGED sockets

\* (a variant of Raise for a report step placed in a finally clause: the
\* report runs although an exception is on its way out)
Raise_ThenReport(e) ==
    /\ pc' = "report"
    /\ exc' = e
    /\ sockets' = {}

\* An exception leaves port_scan: the with statement closes the socket of
\* the current port on the way out, nothing else runs.
Raise(e) ==
    /\ pc' = "raised"
    /\ exc' = e
    /\ sockets' = {}

\* typer.echo(f"Scanning {host} ports ...")
Echo ==
    /\ pc = "echo"
    /\ output' = Append(output, Line("scanning", <<>>))
    /\ pc' = "resolve"
    /\ UNCHANGED <<args, target_ip, port, open_ports, sockets, exit_code,
                   exc, interrupted, resolve_calls, probe_log,
                   sockets_created, probe_ips, result>>

\* (a variant of GaierrorHandler that reports the failure but does not
\* raise typer.Exit, so that control falls through to the scan loop)
GaierrorHandler_NoExit ==
    /\ output' = Append(output, Line("resolve_failed", <<>>))
    /\ open_ports' = <<>>
    /\ pc' = "for"
    /\ UNCHANGED <<target_ip, exit_code, exc, sockets>>

\* (a variant of GaierrorHandler that ends the command with exit code 0)
GaierrorHandler_ExitZero ==
    /\ output' = Append(output, Line("resolve_failed", <<>>))
    /\ exit_code' = <<0>>
    /\ pc' = "exited"
    /\ UNCHANGED <<target_ip, open_ports, exc, sockets>>

\* except socket.gaierror as exc:
\*     typer.secho(f"Failed to resolve host: {exc}", err=True)
\*     raise typer.Exit(code=1)
GaierrorHandler ==
    /\ output' = Append(output, Line("resolve_failed", <<>>))
    /\ exit_code' = <<1>>
    /\ pc' = "exited"
    /\ UNCHANGED <<target_ip, open_ports, exc, sockets>>

\* try: target_ip = _resolve_host(host)
\* except socket.gaierror: (GaierrorHandler)
\* then open_ports = []
Resolve ==
    /\ pc = "resolve"
    /\ resolve_calls' = resolve_calls + 1
    /\ CASE dns = "ok" ->
              /\ target_ip' = "ip"
              /\ open_ports' = <<>>
              /\ pc' = "for"
              /\ UNCHANGED <<output, exit_code, exc, sockets>>
         [] dns = "gaierror" -> GaierrorHandler
         [] dns = "UnicodeError" ->
              /\ Raise("UnicodeError")
              /\ UNCHANGED <<target_ip, open_ports, output, exit_code>>
    /\ UNCHANGED <<args, port, interrupted, probe_log, sockets_created,
                   probe_ips, result>>

\* (a variant of InRange that leaves out the last port of the range)
InRange_Exclusive(p) == p < end_port

\* (a variant of InRange that runs one port past the end of the range)
InRange_PastEnd(p) == p <= end_port + 1

\* range(start_port, end_port + 1) still yields p
InRange(p) == p <= end_port

\* for port in range(start_port, end_port + 1):
\*     with socket.socket(AF_INET, SOCK_STREAM) as sock:
ForNext ==
    /\ pc = "for"
    /\ IF InRange(port)
         THEN /\ sockets' = sockets \cup {port}
              /\ sockets_created' = sockets_created + 1
              /\ pc' = "settimeout"
         ELSE /\ pc' = "report"
              /\ UNCHANGED <<sockets, sockets_created>>
    /\ UNCHANGED <<args, target_ip, port, open_ports, output, exit_code,
                   exc, interrupted, resolve_calls, probe_log,
                   probe_ips, result>>

\* sock.settimeout(timeout): ValueError for a negative timeout
SetTimeout ==
    /\ pc = "settimeout"
    /\ IF timeout < 0
         THEN Raise("ValueError")
         ELSE /\ pc' = "connect"
              /\ UNCHANGED <<exc, sockets>>
    /\ UNCHANGED <<args, target_ip, port, open_ports, output, exit_code,
                   interrupted, resolve_calls, probe_log,
                   sockets_created, probe_ips, result>>

\* (a variant of Handled that catches only socket.timeout)
Handled_Timeout == {"socket.timeout"}

\* (a variant of Handled for a bare except clause)
Handled_Bare == {"socket.error", "socket.timeout", "OverflowError",
                 "ValueError", "KeyboardInterrupt"}

\* The exceptions the handler around connect_ex catches:
\* except socket.error: pass
Handled == {"socket.error"}

\* What sock.connect_ex((target_ip, p)) raises: OverflowError for a port
\* number it does not accept, socket.error when the environment makes the
\* call fail with an exception, nothing when it returns a result code.
ConnectRaises(p) ==
    IF p \notin DOMAIN net THEN "OverflowError"
    ELSE IF net[p] = "error" THEN "socket.error"
    ELSE "none"

\* (a variant of ConnectTarget that passes the host name, which connect_ex
\* would look up again on every call)
ConnectTarget_Host == "host"

\* The address passed to connect_ex: (target_ip, port)
ConnectTarget == target_ip

\* The value sock.connect_ex((target_ip, p)) returns when it returns: 0 for
\* an established connection, otherwise the errno of the failure (the
\* refusal, or the expiry of the socket's timeout).
ReturnCode(p) ==
    CASE net[p] = "open" -> "0"
      [] net[p] = "refused" -> "ECONNREFUSED"
      [] net[p] = "timeout" -> "EAGAIN"

\* (a variant of ResultIsZero with the comparison inverted)
ResultIsZero_Inverted(p) == net[p] # "open"

\* (a variant of ResultIsZero that also takes a refusal for a success)
ResultIsZero_RefusedToo(p) == net[p] \in {"open", "refused"}

\* result == 0 of a call that returned
ResultIsZero(p) == net[p] = "open"

\* (a variant of Collect that puts the port at the front of the list)
Collect_Prepend(ports, p) == <<p>> \o ports

\* (a variant of Collect that assigns the list instead of appending to it)
Collect_Overwrite(ports, p) == <<p>>

\* (a variant of Collect that appends the number after the port)
Collect_OffByOne(ports, p) == Append(ports, p + 1)

\* open_ports.append(port)
Collect(ports, p) == Append(ports, p)

\* (a variant of ConnectCompletes for a socket left in blocking mode: the
\* connect to a port that answers nothing never comes back)
ConnectCompletes_Hang(p) == p \in DOMAIN net => net[p] # "timeout"

\* sock.settimeout(timeout) with timeout >= 0 has bounded the blocking of
\* the socket: connect_ex comes back (returns or raises) on every port.
ConnectCompletes(p) == timeout >= 0

\* try:
\*     result = sock.connect_ex((target_ip, port))
\*     if result == 0: open_ports.append(port)
\* except socket.error: pass
ConnectEx ==
    /\ pc = "connect"
    /\ ConnectCompletes(port)
    /\ probe_log' = IF port \in DOMAIN net THEN Append(probe_log, port)
                                            ELSE probe_log
    /\ probe_ips' = IF port \in DOMAIN net THEN Append(probe_ips, ConnectTarget)
                                            ELSE probe_ips
    /\ result' = IF ConnectRaises(port) = "none" THEN ReturnCode(port)
                                                  ELSE result
    /\ IF ConnectRaises(port) \notin Handled \cup {"none"}
         THEN /\ Raise(ConnectRaises(port))
              /\ UNCHANGED open_ports
         ELSE /\ open_ports' = IF ConnectRaises(port) = "none"
                                    /\ ResultIsZero(port)
                                 THEN Collect(open_ports, port)
                                 ELSE open_ports
              /\ pc' = "with_exit"
              /\ UNCHANGED <<exc, sockets>>
    /\ UNCHANGED <<args, target_ip, port, output, exit_code, interrupted,
                   resolve_calls, sockets_created>>

\* (a variant of Close that leaves the socket open)
Close_Leak(socks, p) == socks

\* __exit__ of the socket: sock.close()
Close(socks, p) == socks \ {p}

\* end of the with block: the socket is closed; the for statement advances
WithExit ==
    /\ pc = "with_exit"
    /\ sockets' = Close(sockets, port)
    /\ port' = port + 1
    /\ pc' = "for"
    /\ UNCHANGED <<args, target_ip, open_ports, output, exit_code, exc,
                   interrupted, resolve_calls, probe_log,
                   sockets_created, probe_ips, result>>

\* (a variant of HasOpen with the test inverted)
HasOpen_Inverted(ports) == ports = <<>>

\* if open_ports: (a list is true when it is not empty)
HasOpen(ports) == ports # <<>>

\* if open_ports: secho("Open ports:") ...
\* else: secho("No open ports found in the specified range.")
Report ==
    /\ pc = "report"
    /\ IF HasOpen(open_ports)
         THEN /\ output' = Append(output, Line("open_header", <<>>))
              /\ pc' = "report_list"
              /\ UNCHANGED exit_code
         ELSE /\ output' = Append(output, Line("none_found", <<>>))
              /\ pc' = "done"
              /\ exit_code' = <<0>>
    /\ UNCHANGED <<args, target_ip, port, open_ports, sockets, exc,
                   interrupted, resolve_calls, probe_log,
                   sockets_created, probe_ips, result>>

\* typer.echo(", ".join(str(p) for p in open_ports)); the function returns
ReportList ==
    /\ pc = "report_list"
    /\ output' = Append(output, Line("open_list", join(open_ports)))
    /\ pc' = "done"
    /\ exit_code' = <<0>>
    /\ UNCHANGED <<args, target_ip, port, open_ports, sockets, exc,
                   interrupted, resolve_calls, probe_log,
                   sockets_created, probe_ips, result>>

\* The statements at which port_scan is still running.
Running == {"echo", "resolve", "for", "settimeout", "connect", "with_exit",
            "report", "report_list"}

\* A keyboard interrupt (SIGINT) arrives while port_scan runs: Python raises
\* KeyboardInterrupt at the current statement.  Inside the try block around
\* connect_ex the except clause decides whether it is caught; everywhere
\* else, and for the clause as written (socket.error is OSError), it
\* propagates out of port_scan.
Interrupt ==
    /\ pc \in Running
    /\ interrupted' = TRUE
    /\ IF pc = "connect" /\ "KeyboardInterrupt" \in Handled
         THEN /\ pc' = "with_exit"
              /\ UNCHANGED <<exc, sockets>>
         ELSE Raise("KeyboardInterrupt")
    /\ UNCHANGED <<args, target_ip, port, open_ports, output, exit_code,
                   resolve_calls, probe_log,
                   sockets_created, probe_ips, result>>

Next ==
    \/ Echo
    \/ Resolve
    \/ ForNext
    \/ SetTimeout
    \/ ConnectEx
    \/ WithExit
    \/ Report
    \/ ReportList
    \/ Interrupt

Spec == Init /\ [][Next]_vars

\* The statements of port_scan, without the interrupt.
Step ==
    \/ Echo
    \/ Resolve
    \/ ForNext
    \/ SetTimeout
    \/ ConnectEx
    \/ WithExit
    \/ Report
    \/ ReportList

\* The interpreter keeps running the one thread of the command: a statement
\* that can run does run.  Nothing obliges an interrupt to arrive.
FairSpec == Spec /\ WF_vars(Step)

(***************************************************************************)
(* Observations the properties are stated on.                              *)
(***************************************************************************)
\* The number a rendered item denotes (the reader's side of str).
RECURSIVE int(_)
int(ds) ==
    IF Len(ds) = 1 THEN ds[1]
    ELSE 10 * int(SubSeq(ds, 1, Len(ds) - 1)) + ds[Len(ds)]

\* The kinds of line that make up a scan result.
ResultKinds == {"open_header", "open_list", "none_found"}

\* Some line of a scan result has been written.
ResultEmitted == \E i \in DOMAIN output : output[i].kind \in ResultKinds

\* port_scan has returned normally: the scan completed.
Completed == pc = "done"

\* The open-port sequence a reader finds in the output: the numbers of the
\* open-port line, or the empty sequence when there is no such line.
ReportedPorts ==
    LET idx == {i \in DOMAIN output : output[i].kind = "open_list"}
    IN  IF idx = {} THEN <<>>
        ELSE LET items == output[CHOOSE i \in idx : TRUE].items
             IN  [k \in 1..Len(items) |-> int(items[k])]

\* The ports of the requested range, in ascending order.
RangeSeq == [i \in 1..(end_port - start_port + 1) |-> start_port + i - 1]

\* The ports of the requested range on which the connect succeeds.
OpenInRange ==
    {p \in start_port..end_port : p \in DOMAIN net /\ net[p] = "open"}

\* The elements of a finite set of integers in ascending order.
RECURSIVE Ascending(_)
Ascending(S) ==
    IF S = {} THEN <<>>
    ELSE LET m == CHOOSE x \in S : \A y \in S : x <= y
         IN  <<m>> \o Ascending(S \ {m})

\* The request violates the range contract of the specification: the bounds
\* are inverted or one of them lies outside 1..65535.
InvalidRange ==
    \/ start_port > end_port
    \/ start_port < 1 \/ start_port > 65535
    \/ end_port < 1 \/ end_port > 65535

\* The lookup of the host has been made and has failed.
ResolutionFailed == resolve_calls > 0 /\ dns # "ok"

(***************************************************************************)
(* C1: for a request with start_port <= end_port, the open-port sequence   *)
(* reported by a completed scan is strictly ascending and every element    *)
(* lies within start_port..end_port.                                       *)
(***************************************************************************)
C1_AscendingInRange ==
    (Completed /\ start_port <= end_port) =>
        /\ \A i \in 1..Len(ReportedPorts), j \in 1..Len(ReportedPorts) :
              i < j => ReportedPorts[i] < ReportedPorts[j]
        /\ \A i \in 1..Len(ReportedPorts) :
              start_port <= ReportedPorts[i] /\ ReportedPorts[i] <= end_port

\* A completed scan that reports at least two open ports.
C1_Witness == Completed /\ Len(ReportedPorts) >= 2

(***************************************************************************)
(* C2: the open-port sequence reported by a completed scan is exactly the  *)
(* ascending list of the ports of the range whose connect returned 0;      *)
(* refused, timed-out and failed ports are absent, open ports all present. *)
(***************************************************************************)
C2_ExactlyTheOpenPorts ==
    Completed => ReportedPorts = Ascending(OpenInRange)

\* A completed scan over three ports: one open, one refused and one whose
\* connect timed out or raised.
C2_Witness ==
    /\ Completed
    /\ Len(probe_log) = 3
    /\ Len(ReportedPorts) = 1
    /\ \E p \in DOMAIN net : net[p] = "refused"
    /\ \E p \in DOMAIN net : net[p] \in {"timeout", "error"}

(***************************************************************************)
(* C3: when the resolution of the host fails, the scan ends at once with   *)
(* no probe dispatched: no socket exists, no connect has been attempted,   *)
(* the loop is never entered; an unknown host (socket.gaierror) ends the   *)
(* command with the resolution diagnostic and exit code 1.                 *)
(***************************************************************************)
C3_ResolutionFailureNoProbes ==
    ResolutionFailed =>
        /\ probe_log = <<>>
        /\ sockets = {}
        /\ target_ip = "unset"
        /\ pc \in {"exited", "raised"}
        /\ dns = "gaierror" =>
              /\ pc = "exited"
              /\ exit_code = <<1>>
              /\ output[Len(output)].kind = "resolve_failed"

\* The lookup of an unknown host has failed for a request with a non-empty
\* range of acceptable ports.
C3_Witness ==
    /\ ResolutionFailed
    /\ dns = "gaierror"
    /\ pc = "exited"
    /\ start_port >= 1 /\ start_port < end_port

(***************************************************************************)
(* C4: a request whose bounds are inverted or lie outside 1..65535 never   *)
(* yields a scan result (neither an open-port list nor the 'no open        *)
(* ports' status).                                                         *)
(***************************************************************************)
C4_InvalidRangeYieldsNoResult ==
    InvalidRange => ~Completed /\ ~ResultEmitted

(***************************************************************************)
(* C5: for a request with an invalid range no network call is made: the    *)
(* resolver is not invoked, no socket is opened and no probe dispatched.   *)
(***************************************************************************)
C5_InvalidRangeNoNetworkIO ==
    InvalidRange => resolve_calls = 0 /\ sockets = {} /\ probe_log = <<>>

(***************************************************************************)
(* C6: once the host is resolved, no outcome of a probe makes the scan     *)
(* fail.  Every exception that ends the scan after resolution is a         *)
(* keyboard interrupt, a negative timeout rejected by settimeout or a port *)
(* number connect_ex does not accept; a refused, timed-out or failed       *)
(* connect is absorbed as 'not open' and the scan goes on.                 *)
(***************************************************************************)
C6_PortOutcomesAbsorbed ==
    /\ (target_ip = "ip" /\ pc = "raised") =>
          \/ exc = "KeyboardInterrupt" /\ interrupted
          \/ exc = "ValueError" /\ timeout < 0
          \/ exc = "OverflowError" /\ (port < 0 \/ port > MaxPortNumber)
    /\ \A i \in 1..Len(probe_log) :
          net[probe_log[i]] # "open" =>
              \A k \in 1..Len(open_ports) : open_ports[k] # probe_log[i]
    /\ (pc = "with_exit" /\ ~interrupted) => exc = "none"

\* A completed scan whose first probe raised socket.error and whose second
\* probe was refused or timed out, and which went on to probe a third port.
C6_Witness ==
    /\ Completed
    /\ Len(probe_log) = 3
    /\ net[probe_log[1]] = "error"
    /\ net[probe_log[2]] \in {"refused", "timeout"}

(***************************************************************************)
(* C7: a scan that returns a result has probed every port of               *)
(* start_port..end_port exactly once, in one pass: no early stop at an     *)
(* open port, no port skipped after a failed probe, no port probed twice;  *)
(* a range of one port means one probe.                                    *)
(***************************************************************************)
C7_ExhaustiveOnce ==
    Completed => probe_log = RangeSeq

\* A completed scan over three ports whose first port is open and whose
\* second probe failed.
C7_Witness ==
    /\ Completed
    /\ Len(probe_log) = 3
    /\ net[probe_log[1]] = "open"
    /\ net[probe_log[2]] \in {"refused", "timeout", "error"}

\* What a strictly sequential scan of the ports from p to end_port yields
\* for the fixed outcomes of the environment.
RECURSIVE SequentialScan(_)
SequentialScan(p) ==
    IF p > end_port THEN <<>>
    ELSE (IF p \in DOMAIN net /\ net[p] = "open" THEN <<p>> ELSE <<>>)
         \o SequentialScan(p + 1)

C9_InFlightBounded ==
    Cardinality(sockets) <= Concurrency

\* The third probe of a scan is in flight after two probes have finished.
C9_Witness ==
    /\ pc = "connect"
    /\ Len(probe_log) = 2
    /\ Cardinality(sockets) = 1

\* Ports of the range remain on which no connect has been started.
ProbesRemain == Len(probe_log) < end_port - start_port + 1

(***************************************************************************)
(* C10: a scan interrupted while probes remain undispatched ends with      *)
(* KeyboardInterrupt: no line of a scan result is written (the open ports  *)
(* collected so far are dropped), the command does not end with exit code  *)
(* 0 as a completed scan does, and after the interrupt no further probe is *)
(* dispatched and no socket opened.                                        *)
(***************************************************************************)
C10_CancelledNoResult ==
    /\ [](interrupted /\ ProbesRemain =>
             /\ pc = "raised"
             /\ exc = "KeyboardInterrupt"
             /\ ~ResultEmitted
             /\ exit_code = <<>>
             /\ sockets = {})
    /\ [][interrupted =>
             /\ probe_log' = probe_log
             /\ sockets' = sockets
             /\ output' = output]_vars

\* A scan interrupted after it has found an open port and before it has
\* probed the last port of its range.
C10_Witness ==
    /\ interrupted
    /\ ProbesRemain
    /\ open_ports # <<>>
    /\ pc = "raised"

\* The scan has ended: normally, by typer.Exit or by an exception.
Ended == pc \in {"done", "exited", "raised"}

\* The number of probes in flight: the loop body is between the creation of
\* its socket and the end of its with block.
InFlight == IF pc \in {"settimeout", "connect", "with_exit"} THEN 1 ELSE 0

(***************************************************************************)
(* C11: every probe has a socket of its own, created for it and closed on  *)
(* every way out of the loop body (connect returned, error absorbed,       *)
(* exception, interrupt): connects never outnumber the sockets created,    *)
(* at most one socket was created without a connect, open sockets never    *)
(* outnumber the probes in flight, and none is open once the scan ended.   *)
(***************************************************************************)
C11_SocketPerProbeClosed ==
    /\ Len(probe_log) <= sockets_created
    /\ sockets_created <= Len(probe_log) + 1
    /\ Cardinality(sockets) <= InFlight
    /\ sockets \subseteq {port}
    /\ Ended => sockets = {}

\* A scan interrupted while its second probe was in flight: two sockets
\* were created, one connect was made, no socket is open.
C11_Witness ==
    /\ pc = "raised"
    /\ interrupted
    /\ sockets_created = 2
    /\ Len(probe_log) = 1
    /\ sockets = {}

(***************************************************************************)
(* C12: the host is looked up exactly once per scan, before the first      *)
(* probe; the resolved address is not changed afterwards, and every        *)
(* connect of the scan is made to that address.                            *)
(***************************************************************************)
C12_ResolvedOnce ==
    /\ [](/\ resolve_calls <= 1
          /\ (target_ip # "unset" \/ sockets_created > 0) => resolve_calls = 1
          /\ Len(probe_ips) = Len(probe_log)
          /\ \A i \in 1..Len(probe_ips) :
                probe_ips[i] = target_ip /\ target_ip = "ip")
    /\ [][/\ target_ip # "unset" => target_ip' = target_ip
          /\ resolve_calls' # resolve_calls => pc = "resolve"]_vars

\* A completed scan of three ports after one lookup.
C12_Witness ==
    /\ Completed
    /\ resolve_calls = 1
    /\ Len(probe_ips) = 3

\* The number of lines of a kind in the output.
Count(kind) == Cardinality({i \in DOMAIN output : output[i].kind = kind})

(***************************************************************************)
(* C13: a failed resolution is a different outcome from an empty result.   *)
(* For an unknown host the command writes exactly one error diagnostic     *)
(* and ends with exit code 1; whenever the lookup failed, no line of a     *)
(* scan result is written and the command does not end with exit code 0;   *)
(* the diagnostic and a scan result never occur together.                  *)
(***************************************************************************)
C13_ResolutionFailureDistinct ==
    /\ (resolve_calls > 0 /\ dns = "gaierror") =>
          /\ Count("resolve_failed") = 1
          /\ exit_code = <<1>>
          /\ pc = "exited"
    /\ ResolutionFailed =>
          /\ ~ResultEmitted
          /\ ~Completed
          /\ exit_code # <<0>>
    /\ ResultEmitted => Count("resolve_failed") = 0

\* The command has ended on the failed lookup of an unknown host, having
\* written the banner and the diagnostic.
C13_Witness ==
    /\ pc = "exited"
    /\ dns = "gaierror"
    /\ Len(output) = 2
    /\ exit_code = <<1>>

(***************************************************************************)
(* C14: a scan that resolved its host and completed all its probes ends    *)
(* normally with exit code 0 whether or not a port is open (only an        *)
(* interrupt can still stop it), and it reports exactly one of two         *)
(* things: the header and the list of the open ports when there are some,  *)
(* the single 'no open ports' line when there are none.                    *)
(***************************************************************************)
C14_SuccessOneOfTwoReports ==
    /\ Completed =>
          /\ exit_code = <<0>>
          /\ exc = "none"
          /\ IF open_ports # <<>>
               THEN /\ Count("open_header") = 1
                    /\ Count("open_list") = 1
                    /\ Count("none_found") = 0
                    /\ ReportedPorts = open_ports
               ELSE /\ Count("open_header") = 0
                    /\ Count("open_list") = 0
                    /\ Count("none_found") = 1
    /\ (target_ip = "ip" /\ ~ProbesRemain /\ ~interrupted) => pc # "raised"

\* A completed scan of at least two ports none of which is open.
C14_Witness ==
    /\ Completed
    /\ open_ports = <<>>
    /\ Len(probe_log) >= 2
    /\ exit_code = <<0>>

(***************************************************************************)
(* C15: a request whose timeout is zero or negative is rejected before     *)
(* any network I/O: the host is not looked up, no socket is created and    *)
(* no connect is made.                                                     *)
(***************************************************************************)
C15_NonPositiveTimeoutRejected ==
    timeout <= 0 =>
        resolve_calls = 0 /\ sockets_created = 0 /\ probe_log = <<>>

\* The request satisfies the contract of the specification: an ordered
\* range within 1..65535 and a positive timeout.
ValidRequest == ~InvalidRange /\ timeout > 0

(***************************************************************************)
(* C16: given that every connect comes back, every scan ends; it never     *)
(* blocks forever.  A scan of a valid request reaches the report step      *)
(* with all its probes completed, or ends on a failed resolution or on an  *)
(* interrupt.                                                              *)
(***************************************************************************)
C16_Terminates ==
    /\ <>Ended
    /\ ValidRequest =>
          <>(\/ pc \in {"report", "report_list", "done"}
                   /\ probe_log = RangeSeq /\ sockets = {}
             \/ ResolutionFailed /\ Ended
             \/ interrupted /\ pc = "raised")

\* A scan has ended normally after three probes, the second of which ran
\* into the timeout.
C16_Witness ==
    /\ pc = "done"
    /\ Len(probe_log) = 3
    /\ net[probe_log[2]] = "timeout"
    /\ timeout > 0

\* The elements of a sequence.
Elems(seq) == {seq[i] : i \in DOMAIN seq}

\* The three-state outcome the specification assigns to a connect.
Expected(o) ==
    CASE o = "open" -> "Open"
      [] o = "refused" -> "Closed"
      [] OTHER -> "Unreachable"

\* The most the locals of port_scan tell about the port p just probed:
\* whether it was appended to open_ports and, if not, the code in result.
Classification(p) ==
    IF p \in Elems(open_ports) THEN "Open"
    ELSE IF result = "ECONNREFUSED" THEN "Closed"
    ELSE "Unreachable"

C18_AscendingAtEveryStep ==
    /\ \A i \in 1..Len(probe_log) : probe_log[i] = start_port + i - 1
    /\ pc \in {"settimeout", "connect"} =>
          port = start_port + Len(probe_log)
    /\ pc = "with_exit" => port = probe_log[Len(probe_log)]
    /\ \A i \in 1..Len(open_ports), j \in 1..Len(open_ports) :
          i < j => open_ports[i] < open_ports[j]
    /\ \A k \in 1..Len(open_ports) :
          open_ports[k] \in Elems(probe_log) /\ open_ports[k] <= port

\* The third port is being probed after the first two were found open.
C18_Witness ==
    /\ pc = "connect"
    /\ Len(open_ports) = 2
    /\ Len(probe_log) = 2

(***************************************************************************)
(* C19: for start_port > end_port the host is looked up, no socket is      *)
(* created and no probe dispatched, and the command ends normally with     *)
(* the single line 'No open ports found in the specified range.' and exit  *)
(* code 0; short of an interrupt, it ends otherwise only when the lookup   *)
(* fails.                                                                  *)
(***************************************************************************)
C19_InvertedRangeReportsNone ==
    start_port > end_port =>
        /\ probe_log = <<>>
        /\ sockets_created = 0
        /\ Completed =>
              /\ resolve_calls = 1
              /\ dns = "ok"
              /\ Count("none_found") = 1
              /\ Count("open_header") = 0 /\ Count("open_list") = 0
              /\ exit_code = <<0>>
        /\ (Ended /\ ~Completed /\ ~interrupted) => ResolutionFailed
        /\ pc \notin {"settimeout", "connect", "with_exit", "report_list"}

\* An inverted range with a negative timeout has been reported as having
\* no open ports.
C19_Witness ==
    /\ Completed
    /\ start_port > end_port
    /\ start_port >= 1
    /\ timeout < 0
    /\ Count("none_found") = 1

(***************************************************************************)
(* C20: the report step is reached only after the loop has gone through    *)
(* the whole range.  When a step of a probe raises anything but            *)
(* socket.error (a port number above 65535 or below 0, a negative          *)
(* timeout, a keyboard interrupt) the scan ends there: the ports after it  *)
(* are not probed and no line of a result is written, even when open       *)
(* ports had been collected.                                               *)
(***************************************************************************)
C20_ReportOnlyAfterFullLoop ==
    /\ pc \in {"report", "report_list", "done"} =>
          probe_log = RangeSeq /\ exc = "none"
    /\ ResultEmitted => probe_log = RangeSeq
    /\ (pc = "raised" /\ target_ip = "ip" /\ ProbesRemain) =>
          /\ exc \in {"OverflowError", "ValueError", "KeyboardInterrupt"}
          /\ ~ResultEmitted
          /\ exit_code = <<>>
          /\ Len(probe_log) <= port - start_port + 1
          /\ \A i \in 1..Len(probe_log) : probe_log[i] <= port

\* The scan has ended on a port number connect_ex rejects, after it had
\* found an open port.
C20_Witness ==
    /\ pc = "raised"
    /\ exc = "OverflowError"
    /\ open_ports # <<>>
    /\ ~ResultEmitted

====
